---- MODULE Spec2Model ----
(***************************************************************************)
(* Model of the KrakenD endpoint handler (router/mux) and of the           *)
(* concurrent (hedging) proxy middleware.                                  *)
(*                                                                         *)
(* Durations are counted in milliseconds.  A string that the code          *)
(* transforms character by character (the HTTP method) is a sequence of    *)
(* one-character strings.  A header value is a tuple: <<"text">> for a     *)
(* literal, <<"public, max-age=", n>> for the formatted cache value.       *)
(***************************************************************************)
EXTENDS Integers, Sequences, FiniteSets, TLC

VARIABLES
    cfg,          \* the EndpointConfig the handler was built from (+ errF)
    req,          \* the inbound *http.Request (its Method)
    pc,           \* position of the handler goroutine
    ctxDone,      \* requestCtx.Done() is closed
    parentDone,   \* r.Context() of the inbound request is cancelled
    timerElapsed, \* configuration.Timeout has elapsed since requestCtx was made
    response,     \* the *proxy.Response the pipeline returned
    err,          \* the error the pipeline returned (after the select)
    proxyErr,     \* the error exactly as the pipeline returned it
    w,            \* the http.ResponseWriter: headers, status, body
    proxyCalls,   \* number of invocations of prxy
    renderCalls,  \* number of invocations of render
    events,       \* the statements the handler has executed, in order
    cmPhase,      \* concurrent middleware: "off", "idle", "running", "returned"
    cmN,          \* ConcurrentCalls of the backend
    cmOutcome,    \* per launched call: "ok" or "fail", what the call will give
    callState,    \* per launched call: "running" or "done"
    arrivals,     \* the calls in the order they completed
    cmFailed,     \* number of failures the middleware has received
    cmLastErr,    \* the call whose error the middleware holds (0: none)
    cmResult,     \* what the middleware returned to its caller
    cmCtxDone,    \* the shared context is done
    cmBody,       \* content of the request's body stream
    cmBuffer,     \* the buffered copy of the body
    streamPos,    \* read position of stream 0 (original) and of each replay
    seen,         \* per call: the bytes it has read from its Request.Body
    drains,       \* number of times the original stream was drained
    rbPhase,      \* request builder: "off", "ready", "built"
    rbSel,        \* the queryString and headersToSend lists given to it
    rbIn0,        \* the inbound *http.Request as it was received
    rbIn,         \* the inbound *http.Request as it is now
    rbOut,        \* the *proxy.Request the builder returned
    regEndpoints, \* registration: the endpoints of the service configuration
    regIdx,       \* the endpoint the registration loop is at (0: no loop)
    regEngine,    \* the (path, method) pairs the engine has a handler for
    regLog,       \* what the registration logged as errors
    regAnswer,    \* how the engine answered the last request
    renderRegister, \* render registry: encoding name -> render, or NoRender
    rrCfg,        \* the EndpointConfig of the last getRender call
    rrAt,         \* the registry as that call found it
    rrResult,     \* the render that call returned, kept by the handler
    rrUsed,       \* the render the handler used for its last request
    lkPc,         \* concurrent callers: where each goroutine is in its call
    lkArg,        \* the render a goroutine in RegisterRender registers
    lkGot,        \* the render a goroutine in getWithFallback has read
    mutexW,       \* RWMutex: the goroutine that holds the writers' mutex, or 0
    mutexWriter,  \* RWMutex: a writer has announced itself to the readers
    mutexReaders, \* RWMutex: the readers that hold the lock
    mutexBlocked, \* RWMutex: the readers that wait for the writer to unlock
    nrPhase,      \* noop render: "off", "ready", "rendered"
    nrResp,       \* the *proxy.Response given to it
    nrW           \* the gin writer: status, headers, body, and a panic

hvars == <<cfg, req, pc, ctxDone, parentDone, timerElapsed, response, err, proxyErr, w, proxyCalls,
           renderCalls, events>>

cmvars == <<cmPhase, cmN, cmOutcome, callState, arrivals, cmFailed, cmLastErr,
            cmResult, cmCtxDone, cmBody, cmBuffer, streamPos, seen, drains>>

rbvars == <<rbPhase, rbSel, rbIn0, rbIn, rbOut>>

regvars == <<regEndpoints, regIdx, regEngine, regLog, regAnswer>>

rrvars == <<renderRegister, rrCfg, rrAt, rrResult, rrUsed>>

lkvars ==
    <<lkPc, lkArg, lkGot, mutexW, mutexWriter, mutexReaders, mutexBlocked>>

nrvars == <<nrPhase, nrResp, nrW>>

xvars == <<rbvars, regvars, rrvars, lkvars, nrvars>>

vars == <<hvars, cmvars, xvars>>

----------------------------------------------------------------------------
(* Strings and methods *)

UpperOf ==
    [c \in {"G", "E", "T", "P", "U", "O", "S", "A", "C", "H", "D", "L",
            "g", "e", "t", "p", "u", "o", "s"} |->
        CASE c = "g" -> "G"
          [] c = "e" -> "E"
          [] c = "t" -> "T"
          [] c = "p" -> "P"
          [] c = "u" -> "U"
          [] c = "o" -> "O"
          [] c = "s" -> "S"
          [] OTHER   -> c]

\* strings.ToTitle: every letter mapped to its title (upper) case
ToTitle(s) == [i \in 1..Len(s) |-> UpperOf[s[i]]]

MethodGet == <<"G", "E", "T">>
MethodPut == <<"P", "U", "T">>
MethodPost == <<"P", "O", "S", "T">>
MethodPatch == <<"P", "A", "T", "C", "H">>
MethodDelete == <<"D", "E", "L", "E", "T", "E">>

\* the methods an EndpointConfig may name
ConfigMethods == {MethodGet, <<"g", "e", "t">>, MethodPut}

\* the methods a request may arrive with
RequestMethods == {MethodGet, <<"g", "e", "t">>, <<"G", "e", "t">>, MethodPut}

----------------------------------------------------------------------------
(* Header names and values *)

KrakendHeaderName == "X-Krakend"
KrakendHeaderValue == <<"Version undefined">>
CompleteResponseHeaderName == "X-Krakend-Completed"
HeaderCompleteResponseValue == <<"complete">>
HeaderIncompleteResponseValue == <<"incomplete">>

HeaderNames ==
    {KrakendHeaderName, CompleteResponseHeaderName, "Cache-Control",
     "Content-Type", "X-Content-Type-Options", "X-YZ"}

\* http.Header: name -> sequence of values, <<>> when the name is absent
EmptyHeader == [k \in HeaderNames |-> <<>>]

HeaderSet(h, k, v) == [h EXCEPT ![k] = <<v>>]
HeaderAdd(h, k, v) == [h EXCEPT ![k] = Append(@, v)]

----------------------------------------------------------------------------
(* proxy.Response, errors *)

StatusMethodNotAllowed == 405
StatusInternalServerError == 500
StatusOK == 200
StatusTeapot == 418

\* Response.Data: a nil map, or a set of key/value pairs
NilData == [isNil |-> TRUE, kv |-> {}]
MapData(s) == [isNil |-> FALSE, kv |-> s]
DataLen(d) == Cardinality(d.kv)

DataValues ==
    {NilData, MapData({}), MapData({<<"supu", "tupu">>}),
     MapData({<<"foo", "bar">>, <<"a", "b">>})}

\* Metadata.Headers: the names the backend set, each with its values
MetaHeaderValues ==
    {EmptyHeader,
     [EmptyHeader EXCEPT !["X-YZ"] = <<<<"something">>>>],
     [EmptyHeader EXCEPT !["X-YZ"] = <<<<"one">>, <<"two">>>>]}

NilResponse ==
    [isNil |-> TRUE, Data |-> NilData, IsComplete |-> FALSE,
     Headers |-> EmptyHeader]

Responses ==
    {NilResponse} \cup
    [isNil : {FALSE}, Data : DataValues, IsComplete : BOOLEAN,
     Headers : MetaHeaderValues]

NoError == [isNil |-> TRUE, msg |-> "", hasStatus |-> FALSE, status |-> 0]
\* router.ErrInternalError
ErrInternalError ==
    [isNil |-> FALSE, msg |-> "internal server error", hasStatus |-> FALSE,
     status |-> 0]
\* a plain error, as fmt.Errorf gives
DummyError ==
    [isNil |-> FALSE, msg |-> "This is a dummy error", hasStatus |-> FALSE,
     status |-> 0]
\* an error that implements responseError (StatusCode() int)
DummyResponseError ==
    [isNil |-> FALSE, msg |-> "this is a dummy error", hasStatus |-> TRUE,
     status |-> StatusTeapot]

ProxyErrors == {NoError, DummyError, DummyResponseError}

\* router.ToHTTPError functions the handler factory may be given
DefaultToHTTPError(e) == StatusInternalServerError
BadGatewayToHTTPError(e) == 502
ErrFNames == {"default", "custom"}
ErrF(name, e) ==
    IF name = "default" THEN DefaultToHTTPError(e) ELSE BadGatewayToHTTPError(e)

----------------------------------------------------------------------------
(* EndpointConfig *)

\* CacheTTL values in milliseconds: negative, zero, below one second,
\* a fractional number of seconds
CacheTTLs == {-1000, 0, 500, 2500}

Configs == [Method : ConfigMethods, CacheTTL : CacheTTLs, errF : ErrFNames]

\* int(d.Seconds()): conversion of the float to int truncates toward zero
WholeSeconds(d) == IF d >= 0 THEN d \div 1000 ELSE -((-d) \div 1000)

\* fmt.Sprintf("public, max-age=%d", int(configuration.CacheTTL.Seconds()))
CacheControlHeaderValue(c) == <<"public, max-age=", WholeSeconds(c.CacheTTL)>>

\* configuration.CacheTTL.Seconds() != 0
IsCacheEnabled(c) == c.CacheTTL # 0

\* the configured method taken as it is written
HandlerMethod_Raw(c) == c.Method

\* method := strings.ToTitle(configuration.Method)
HandlerMethod(c) == ToTitle(c.Method)

----------------------------------------------------------------------------
(* http.ResponseWriter *)

\* a body is nothing, a text (message and newline) or the JSON of a map
NoBody == [kind |-> "none", text |-> <<>>, data |-> NilData]
TextBody(msg) == [kind |-> "text", text |-> <<msg, "\n">>, data |-> NilData]
JSONBody(d) == [kind |-> "json", text |-> <<>>, data |-> d]

NewRecorder == [header |-> EmptyHeader, status |-> 0, body |-> NoBody]

\* http.Error: content type, nosniff, status line, message and a newline
HTTPError(rw, msg, code) ==
    [header |-> HeaderSet(HeaderSet(rw.header, "Content-Type",
                                    <<"text/plain; charset=utf-8">>),
                          "X-Content-Type-Options", <<"nosniff">>),
     status |-> code,
     body   |-> TextBody(msg)]

\* c.Writer.Status(): 200 until a status was written
WriterStatus(rw) == IF rw.status = 0 THEN StatusOK ELSE rw.status

\* jsonRender: the empty object for a nil response, else response.Data
JSONRender(rw, resp) ==
    [header |-> HeaderSet(rw.header, "Content-Type", <<"application/json">>),
     status |-> WriterStatus(rw),
     body   |-> IF resp.isNil THEN JSONBody(MapData({}))
                ELSE JSONBody(resp.Data)]

----------------------------------------------------------------------------
(* The handler returned by CustomEndpointHandlerWithHTTPError *)

\* only the nil check
HasData_NotNil(resp) == ~resp.isNil

\* data counted as usable only when it is complete
HasData_Complete(resp) ==
    ~resp.isNil /\ DataLen(resp.Data) > 0 /\ resp.IsComplete

\* response != nil && len(response.Data) > 0
HasData(resp) == ~resp.isNil /\ DataLen(resp.Data) > 0

\* r.Method != method
MethodMismatch(c, r) == r.Method # HandlerMethod(c)

\* a done context always gives ErrInternalError
ErrAfterSelect_Always(done, e) == IF done THEN ErrInternalError ELSE e

\* the select on requestCtx.Done(): a missing error becomes ErrInternalError
ErrAfterSelect(done, e) ==
    IF done /\ e.isNil THEN ErrInternalError ELSE e

\* every value written with Set: the last one stays
AddAll_Set(h, k, vs) ==
    IF vs = <<>> THEN h ELSE HeaderSet(h, k, vs[Len(vs)])

\* for k, vs := range response.Metadata.Headers { w.Header().Add(k, v) }
RECURSIVE AddAll(_, _, _)
AddAll(h, k, vs) ==
    IF vs = <<>> THEN h ELSE AddAll(HeaderAdd(h, k, Head(vs)), k, Tail(vs))

RECURSIVE CopyHeaders(_, _, _)
CopyHeaders(h, meta, ks) ==
    IF ks = {} THEN h
    ELSE LET k == CHOOSE x \in ks : TRUE
         IN  CopyHeaders(AddAll(h, k, meta[k]), meta, ks \ {k})

\* the branch of the data headers with the cache header on every response
DataHeaders_CacheAlways(c, h, resp) ==
    LET h1 == HeaderSet(h, CompleteResponseHeaderName,
                        IF resp.IsComplete THEN HeaderCompleteResponseValue
                        ELSE HeaderIncompleteResponseValue)
        h2 == IF IsCacheEnabled(c)
              THEN HeaderSet(h1, "Cache-Control", CacheControlHeaderValue(c))
              ELSE h1
    IN  CopyHeaders(h2, resp.Headers, HeaderNames)

\* the branch taken when the response carries data
DataHeaders(c, h, resp) ==
    LET h1 == IF resp.IsComplete
              THEN LET hc == HeaderSet(h, CompleteResponseHeaderName,
                                       HeaderCompleteResponseValue)
                   IN  IF IsCacheEnabled(c)
                       THEN HeaderSet(hc, "Cache-Control",
                                      CacheControlHeaderValue(c))
                       ELSE hc
              ELSE HeaderSet(h, CompleteResponseHeaderName,
                             HeaderIncompleteResponseValue)
    IN  CopyHeaders(h1, resp.Headers, HeaderNames)

\* the error-to-status function asked for every error
ErrorStatus_Mapped(c, e) == ErrF(c.errF, e)

\* the status of the error branch
ErrorStatus(c, e) == IF e.hasStatus THEN e.status ELSE ErrF(c.errF, e)

\* the method check placed before the identity header
HandlerPrologue_CheckFirst == <<"MethodCheck", "SetKrakendHeader">>

\* the first two statements of the handler
HandlerPrologue == <<"SetKrakendHeader", "MethodCheck">>

----------------------------------------------------------------------------
(* The request builder returned by NewRequestBuilder *)

MaxSel == 2

requestParamsAsterisk == "*"
UserAgentHeaderValue == <<"KrakenD Version undefined">>

QueryNames == {"a", "b", "c[]", "d"}
HeaderKeys ==
    {"Content-Type", "content-type", "User-Agent", "X-Forwarded-For",
     "X-Missing"}

\* textproto.CanonicalMIMEHeaderKey: first letter and the letters after a
\* hyphen in upper case, the others in lower case
CanonicalMIMEHeaderKey ==
    [k \in HeaderKeys |->
        CASE k = "content-type" -> "Content-Type"
          [] OTHER -> k]

NoValues(keys) == [k \in keys |-> <<>>]

\* r.URL.Query() of the inbound request: name -> values, <<>> when absent
InboundQueries ==
    {NoValues(QueryNames),
     [NoValues(QueryNames) EXCEPT !["b"] = <<"1">>],
     [a |-> <<"42">>, b |-> <<"1">>, d |-> <<"1", "2">>] @@
        [k \in {"c[]"} |-> <<"x", "y">>]}

\* r.Header of the inbound request, under canonical names
InboundHeaders ==
    {NoValues(HeaderKeys),
     [NoValues(HeaderKeys) EXCEPT !["Content-Type"] = <<<<"application/json">>>>],
     [NoValues(HeaderKeys) EXCEPT !["Content-Type"] = <<<<"application/json">>>>,
                                  !["User-Agent"] = <<<<"curl">>>>,
                                  !["X-Forwarded-For"] = <<<<"10.0.0.1">>>>]}

\* r.RemoteAddr in the parts the regular expression looks for: an address
\* and a port, or a text that has no such parts
RemoteAddrs == {<<"1.2.3.4", ":5678">>, <<"pipe">>}

\* the regular expression ^\[?([\d.:]+)\]?(:[\d]*)$ on r.RemoteAddr: the
\* first group when it matches, else the address as it is
ForwardedFor(addr) == IF Len(addr) = 2 THEN <<addr[1]>> ELSE addr

QuerySelections ==
    UNION {[1..n -> {"*", "b", "c[]", "d"}] : n \in 0..MaxSel}
HeaderSelections ==
    UNION {[1..n -> {"*", "Content-Type", "content-type", "X-Missing",
                     "User-Agent"}] :
              n \in 0..MaxSel}

\* the loop over headersToSend: the listed names found in r.Header, or
\* r.Header itself from the first "*" on
RECURSIVE HeaderLoop(_, _, _, _)
HeaderLoop(hdr, list, i, acc) ==
    IF i > Len(list) THEN [h |-> acc, alias |-> FALSE]
    ELSE IF list[i] = requestParamsAsterisk THEN [h |-> hdr, alias |-> TRUE]
    ELSE IF hdr[CanonicalMIMEHeaderKey[list[i]]] # <<>>
         THEN HeaderLoop(hdr, list, i + 1,
                         [acc EXCEPT ![list[i]] =
                             hdr[CanonicalMIMEHeaderKey[list[i]]]])
         ELSE HeaderLoop(hdr, list, i + 1, acc)

\* the gateway's own two headers, each written only where the map the
\* loop left has no value for it
GatewayHeaders_KeepClient(h, addr) ==
    [h EXCEPT !["X-Forwarded-For"] =
                  IF @ = <<>> THEN <<ForwardedFor(addr)>> ELSE @,
              !["User-Agent"] =
                  IF @ = <<>> THEN <<UserAgentHeaderValue>> ELSE @]

\* the gateway's own two headers, written into the map the loop left
GatewayHeaders(h, addr) ==
    [h EXCEPT !["X-Forwarded-For"] = <<ForwardedFor(addr)>>,
              !["User-Agent"] = <<UserAgentHeaderValue>>]

\* the query loop copying the first of a name's values only
RECURSIVE QueryLoop_FirstValue(_, _, _, _)
QueryLoop_FirstValue(qv, list, i, acc) ==
    IF i > Len(list) THEN acc
    ELSE IF list[i] = requestParamsAsterisk THEN qv
    ELSE IF Len(qv[list[i]]) > 0
         THEN QueryLoop_FirstValue(qv, list, i + 1,
                                   [acc EXCEPT ![list[i]] = <<qv[list[i]][1]>>])
         ELSE QueryLoop_FirstValue(qv, list, i + 1, acc)

\* the loop over queryString: the listed names that have values, or the
\* whole of r.URL.Query() from the first "*" on
RECURSIVE QueryLoop(_, _, _, _)
QueryLoop(qv, list, i, acc) ==
    IF i > Len(list) THEN acc
    ELSE IF list[i] = requestParamsAsterisk THEN qv
    ELSE IF Len(qv[list[i]]) > 0
         THEN QueryLoop(qv, list, i + 1, [acc EXCEPT ![list[i]] = qv[list[i]]])
         ELSE QueryLoop(qv, list, i + 1, acc)

NoRequest ==
    [Method |-> <<>>, Query |-> NoValues(QueryNames),
     Headers |-> NoValues(HeaderKeys)]

RBOff ==
    /\ rbPhase = "off"
    /\ rbSel = [queryString |-> <<>>, headersToSend |-> <<>>]
    /\ rbIn0 = [Method |-> <<>>, header |-> NoValues(HeaderKeys),
                query |-> NoValues(QueryNames),
                remoteAddr |-> <<>>]
    /\ rbIn = rbIn0
    /\ rbOut = NoRequest

----------------------------------------------------------------------------
(* The render registry and getRender *)

NEGOTIATE == "negotiate"
NoRender == "none"
Renders ==
    {"negotiatedRender", "stringRender", "jsonRender", "noopRender",
     "customRender"}

\* encoding names: the four built-in ones, one that is not built in, and
\* the empty name of an unset field
EncodingNames == {NEGOTIATE, "string", "json", "noop", "xml", ""}

\* renderRegister as the package initialises it
BuiltinRegister ==
    [n \in EncodingNames |->
        CASE n = NEGOTIATE -> "negotiatedRender"
          [] n = "string"  -> "stringRender"
          [] n = "json"    -> "jsonRender"
          [] n = "noop"    -> "noopRender"
          [] OTHER         -> NoRender]

\* a registration that starts from the built-in registry again
RegisterWrite_Fresh(reg, name, r) == [BuiltinRegister EXCEPT ![name] = r]

\* renderRegister[name] = r
RegisterWrite(reg, name, r) == [reg EXCEPT ![name] = r]

\* a lookup that answers the JSON render for every name it does not find
getWithFallback_JSON(reg, key, fallback) ==
    IF reg[key] = NoRender THEN "jsonRender" ELSE reg[key]

getWithFallback(reg, key, fallback) ==
    IF reg[key] = NoRender THEN fallback ELSE reg[key]

BackendFallback(reg, c) ==
    IF Len(c.Backend) = 1
    THEN getWithFallback(reg, c.Backend[1].Encoding, "jsonRender")
    ELSE "jsonRender"

getRender(reg, c) ==
    IF c.OutputEncoding = ""
    THEN BackendFallback(reg, c)
    ELSE getWithFallback(reg, c.OutputEncoding, BackendFallback(reg, c))

NoRenderConfig == [OutputEncoding |-> "", Backend |-> <<>>]

RROff ==
    /\ renderRegister = BuiltinRegister
    /\ rrCfg = NoRenderConfig
    /\ rrAt = BuiltinRegister
    /\ rrResult = NoRender
    /\ rrUsed = NoRender

----------------------------------------------------------------------------
(* The noop render *)

MaxIoLen == 2

NoopHeaderKeys == {"X-A", "X-B"}

\* the value lists a key of Metadata.Headers may have
NoopValueLists == {<<>>, <<"a">>, <<"a", "b">>, <<"">>}

\* Metadata.Headers: a map from the keys it has to their value lists
NoopHeaderMaps ==
    UNION {[ks -> NoopValueLists] : ks \in SUBSET NoopHeaderKeys}

NoopResponses ==
    [isNil : {FALSE}, StatusCode : {200, 404}, Headers : NoopHeaderMaps,
     Io : UNION {[1..n -> {"x", "y"}] : n \in 0..MaxIoLen}]

NilNoopResponse ==
    [isNil |-> TRUE, StatusCode |-> 0, Headers |-> <<>>, Io |-> <<>>]

NewGinWriter ==
    [status |-> StatusOK, header |-> [k \in NoopHeaderKeys |-> <<>>],
     body |-> <<>>, panicked |-> FALSE]

\* gin's c.Header(key, value): Set, and Del for the empty value
GinHeader(h, k, value) ==
    IF value = "" THEN [h EXCEPT ![k] = <<>>] ELSE [h EXCEPT ![k] = <<value>>]

\* the loop over Metadata.Headers in the order the map iteration takes;
\* v[0] of an empty list is an index out of range
RECURSIVE NoopHeaders(_, _, _, _)
NoopHeaders(gw, hdrs, order, i) ==
    IF i > Len(order) THEN gw
    ELSE IF Len(hdrs[order[i]]) = 0 THEN [gw EXCEPT !.panicked = TRUE]
    ELSE NoopHeaders([gw EXCEPT !.header =
                         GinHeader(@, order[i], hdrs[order[i]][1])],
                     hdrs, order, i + 1)

\* the orders a range over a map with these keys may take
KeyOrders(ks) ==
    {o \in [1..Cardinality(ks) -> ks] : \A k \in ks : \E i \in DOMAIN o : o[i] = k}

NROff ==
    /\ nrPhase = "off"
    /\ nrResp = NilNoopResponse
    /\ nrW = NewGinWriter

LockOff ==
    /\ lkPc = <<>>
    /\ lkArg = <<>>
    /\ lkGot = <<>>
    /\ mutexW = 0
    /\ mutexWriter = FALSE
    /\ mutexReaders = {}
    /\ mutexBlocked = {}

StatusNotFound == 404

NoAnswer == [path |-> 0, method |-> <<>>, status |-> 0]

RegOff ==
    /\ regEndpoints = <<>>
    /\ regIdx = 0
    /\ regEngine = {}
    /\ regLog = <<>>
    /\ regAnswer = NoAnswer

XOff == RBOff /\ RegOff /\ RROff /\ LockOff /\ NROff

\* the middleware variables while only the handler is looked at
\* a context made from context.Background(): only its own deadline ends it
WithTimeoutDone_Background(parent, elapsed) == elapsed

\* context.WithTimeout(r.Context(), configuration.Timeout): done once the
\* parent is done or the timeout has elapsed
WithTimeoutDone(parent, elapsed) == parent \/ elapsed

CMOff ==
    /\ cmPhase = "off"
    /\ cmN = 0
    /\ cmOutcome = <<>>
    /\ callState = <<>>
    /\ arrivals = <<>>
    /\ cmFailed = 0
    /\ cmLastErr = 0
    /\ cmResult = [kind |-> "none", from |-> 0]
    /\ cmCtxDone = FALSE
    /\ cmBody = <<>>
    /\ cmBuffer = <<>>
    /\ streamPos = <<>>
    /\ seen = <<>>
    /\ drains = 0

Init ==
    /\ cfg \in Configs
    /\ req = [Method |-> MethodGet]
    /\ pc = "idle"
    /\ ctxDone = FALSE
    /\ parentDone = FALSE
    /\ timerElapsed = FALSE
    /\ response = NilResponse
    /\ err = NoError
    /\ proxyErr = NoError
    /\ w = NewRecorder
    /\ proxyCalls = 0
    /\ renderCalls = 0
    /\ events = <<>>
    /\ CMOff
    /\ XOff

\* A request arrives: identity header, method check, then either the 405
\* answer or the call of the pipeline with the deadline-bound context.
ServeHTTP(m) ==
    /\ pc = "idle"
    /\ req' = [Method |-> m]
    /\ LET r  == [Method |-> m]
           w1 == [w EXCEPT !.header =
                     HeaderSet(@, KrakendHeaderName, KrakendHeaderValue)]
       IN  IF MethodMismatch(cfg, r)
           THEN /\ w' = HTTPError(
                          [w1 EXCEPT !.header =
                              HeaderSet(@, CompleteResponseHeaderName,
                                        HeaderIncompleteResponseValue)],
                          "", StatusMethodNotAllowed)
                /\ events' = HandlerPrologue \o <<"SetCompleteness", "WriteError">>
                /\ pc' = "done"
                /\ UNCHANGED proxyCalls
           ELSE /\ w' = w1
                /\ events' = HandlerPrologue \o <<"CallProxy">>
                /\ pc' = "calling"
                /\ proxyCalls' = proxyCalls + 1
    /\ UNCHANGED <<cfg, ctxDone, parentDone, timerElapsed, response, err,
                   proxyErr, renderCalls, cmvars, xvars>>

\* The deadline of requestCtx passes, or the inbound context is cancelled,
\* while the handler is inside prxy or between its return and the select.
ContextDone(cause) ==
    /\ pc \in {"calling", "returned"}
    /\ IF cause = "deadline"
       THEN /\ ~timerElapsed
            /\ timerElapsed' = TRUE
            /\ UNCHANGED parentDone
       ELSE /\ ~parentDone
            /\ parentDone' = TRUE
            /\ UNCHANGED timerElapsed
    /\ ctxDone' = WithTimeoutDone(parentDone', timerElapsed')
    /\ UNCHANGED <<cfg, req, pc, response, err, proxyErr, w, proxyCalls,
                   renderCalls, events, cmvars, xvars>>

\* prxy returns its (response, error) pair.
ProxyReturn(resp, e) ==
    /\ pc = "calling"
    /\ response' = resp
    /\ err' = e
    /\ proxyErr' = e
    /\ pc' = "returned"
    /\ UNCHANGED <<cfg, req, ctxDone, parentDone, timerElapsed, w, proxyCalls,
                   renderCalls, events, cmvars, xvars>>

\* The rest of the handler: the select, the headers, the error answer or
\* the render, cancel().
Respond ==
    /\ pc = "returned"
    /\ LET e == ErrAfterSelect(ctxDone, err)
       IN  /\ err' = e
           /\ IF HasData(response)
              THEN /\ w' = JSONRender(
                             [w EXCEPT !.header =
                                 DataHeaders(cfg, @, response)], response)
                   /\ renderCalls' = renderCalls + 1
                   /\ events' = events \o <<"SetCompleteness", "CopyHeaders",
                                             "Render">>
              ELSE LET w1 == [w EXCEPT !.header =
                                 HeaderSet(@, CompleteResponseHeaderName,
                                           HeaderIncompleteResponseValue)]
                   IN  IF ~e.isNil
                       THEN /\ w' = HTTPError(w1, e.msg, ErrorStatus(cfg, e))
                            /\ events' = events \o <<"SetCompleteness",
                                                      "WriteError">>
                            /\ UNCHANGED renderCalls
                       ELSE /\ w' = JSONRender(w1, response)
                            /\ events' = events \o <<"SetCompleteness",
                                                      "Render">>
                            /\ renderCalls' = renderCalls + 1
    /\ pc' = "done"
    /\ UNCHANGED <<cfg, req, ctxDone, parentDone, timerElapsed, response,
                   proxyErr, proxyCalls, cmvars, xvars>>

Next ==
    \/ \E m \in RequestMethods : ServeHTTP(m)
    \/ \E cause \in {"deadline", "canceled"} : ContextDone(cause)
    \/ \E resp \in Responses, e \in ProxyErrors : ProxyReturn(resp, e)
    \/ Respond

Spec == Init /\ [][Next]_vars

\* the handler goroutine is scheduled: its own steps after the return of
\* prxy are taken; nothing makes prxy return
FairSpec == Spec /\ WF_vars(Respond)

----------------------------------------------------------------------------
(* The concurrent middleware (NewConcurrentMiddleware)                      *)

MaxCalls == 3
MaxBodyLen == 2

\* the body content of length n: the bytes 1..n
BodyOf(n) == [i \in 1..n |-> i]

\* with more than one call, a body that has content is buffered
NeedsBuffer(n, body) == n > 1 /\ Len(body) > 0

\* one replay of the buffer shared by all the calls
CallStream_Shared(n, body, i) == IF NeedsBuffer(n, body) THEN 1 ELSE 0

\* the stream call i reads its body from: its own replay of the buffer,
\* or the original stream (0) when nothing was buffered
CallStream(n, body, i) == IF NeedsBuffer(n, body) THEN i ELSE 0

StreamContent(s) == IF s = 0 THEN cmBody ELSE cmBuffer

\* the next read of call i finds the end of its stream
AtEOF(i) ==
    LET s == CallStream(cmN, cmBody, i)
    IN  streamPos[s] = Len(StreamContent(s))

\* only the response of the first launch slot is taken
Accepts_FirstSlot(out, i) == out[i] = "ok" /\ i = 1

\* a result is returned to the caller as soon as its error is absent
Accepts(out, i) == out[i] = "ok"

\* the first error is kept
KeepError_First(prev, new) == IF prev = 0 THEN new ELSE prev

\* the error kept when a further call fails
KeepError(prev, new) == new

\* the machinery of the concurrent calls is used for every n
PassThrough_Never(n) == FALSE

\* with one call the middleware is the wrapped proxy: nothing is buffered,
\* nothing is selected on
PassThrough(n) == n = 1

\* results are received for as long as calls complete
StillWaiting_Always(phase) == phase \in {"running", "returned"}

\* the middleware receives results until it has returned
StillWaiting(phase) == phase = "running"

\* the context is not looked at
CancelObserved_Never(done) == FALSE

\* the middleware's select sees the shared context done
CancelObserved(done) == done

InitCM ==
    /\ cfg = [Method |-> MethodGet, CacheTTL |-> 0, errF |-> "default"]
    /\ req = [Method |-> MethodGet]
    /\ pc = "off"
    /\ ctxDone = FALSE
    /\ parentDone = FALSE
    /\ timerElapsed = FALSE
    /\ response = NilResponse
    /\ err = NoError
    /\ proxyErr = NoError
    /\ w = NewRecorder
    /\ proxyCalls = 0
    /\ renderCalls = 0
    /\ events = <<>>
    /\ cmPhase = "idle"
    /\ cmN = 0
    /\ cmOutcome = <<>>
    /\ callState = <<>>
    /\ arrivals = <<>>
    /\ cmFailed = 0
    /\ cmLastErr = 0
    /\ cmResult = [kind |-> "none", from |-> 0]
    /\ cmCtxDone = FALSE
    /\ cmBody = <<>>
    /\ cmBuffer = <<>>
    /\ streamPos = <<>>
    /\ seen = <<>>
    /\ drains = 0
    /\ XOff

\* The middleware is called: the body is buffered when needed and the n
\* calls are launched, each with its own Request.
Invoke(n, out, len) ==
    /\ cmPhase = "idle"
    /\ cmPhase' = "running"
    /\ cmN' = n
    /\ cmOutcome' = out
    /\ cmBody' = BodyOf(len)
    /\ IF NeedsBuffer(n, BodyOf(len))
       THEN /\ cmBuffer' = BodyOf(len)
            /\ streamPos' = [s \in 0..n |-> IF s = 0 THEN len ELSE 0]
            /\ drains' = 1
       ELSE /\ cmBuffer' = <<>>
            /\ streamPos' = [s \in 0..n |-> 0]
            /\ drains' = 0
    /\ callState' = [i \in 1..n |-> "running"]
    /\ seen' = [i \in 1..n |-> <<>>]
    /\ UNCHANGED <<arrivals, cmFailed, cmLastErr, cmResult, cmCtxDone, hvars, xvars>>

\* A launched call reads the next byte from the body of its Request.
CallRead(i) ==
    /\ cmPhase \in {"running", "returned"}
    /\ i \in 1..cmN
    /\ callState[i] = "running"
    /\ LET s == CallStream(cmN, cmBody, i)
       IN  /\ streamPos[s] < Len(StreamContent(s))
           /\ seen' = [seen EXCEPT
                         ![i] = Append(@, StreamContent(s)[streamPos[s] + 1])]
           /\ streamPos' = [streamPos EXCEPT ![s] = @ + 1]
    /\ UNCHANGED <<cmPhase, cmN, cmOutcome, callState, arrivals, cmFailed,
                   cmLastErr, cmResult, cmCtxDone, cmBody, cmBuffer, drains,
                   hvars, xvars>>

\* A launched call completes.  While the middleware is still waiting and
\* has not seen the context done, it receives the result: a response is
\* returned at once, an error is kept and returned when it was the last of
\* the n.  With one call the result is passed through as it is.
CallComplete(i) ==
    /\ cmPhase \in {"running", "returned"}
    /\ i \in 1..cmN
    /\ callState[i] = "running"
    /\ callState' = [callState EXCEPT ![i] = "done"]
    /\ arrivals' = Append(arrivals, i)
    /\ IF StillWaiting(cmPhase) /\ (PassThrough(cmN) \/ ~cmCtxDone)
       THEN IF Accepts(cmOutcome, i)
            THEN /\ cmResult' = [kind |-> "response", from |-> i]
                 /\ cmPhase' = "returned"
                 /\ UNCHANGED <<cmFailed, cmLastErr>>
            ELSE /\ cmFailed' = cmFailed + 1
                 /\ cmLastErr' = KeepError(cmLastErr, i)
                 /\ IF cmFailed + 1 = cmN
                    THEN /\ cmResult' = [kind |-> "error",
                                         from |-> KeepError(cmLastErr, i)]
                         /\ cmPhase' = "returned"
                    ELSE UNCHANGED <<cmResult, cmPhase>>
       ELSE UNCHANGED <<cmPhase, cmFailed, cmLastErr, cmResult>>
    /\ UNCHANGED <<cmN, cmOutcome, cmCtxDone, cmBody, cmBuffer, streamPos,
                   seen, drains, hvars, xvars>>

\* The shared deadline-bound context becomes done.
ContextDoneCM ==
    /\ cmPhase = "running"
    /\ ~cmCtxDone
    /\ cmCtxDone' = TRUE
    /\ UNCHANGED <<cmPhase, cmN, cmOutcome, callState, arrivals, cmFailed,
                   cmLastErr, cmResult, cmBody, cmBuffer, streamPos, seen,
                   drains, hvars, xvars>>

\* The middleware sees the context done before any success and returns
\* the error derived from the cancellation.
ReturnCancelled ==
    /\ cmPhase = "running"
    /\ ~PassThrough(cmN)
    /\ CancelObserved(cmCtxDone)
    /\ cmResult' = [kind |-> "cancelled", from |-> 0]
    /\ cmPhase' = "returned"
    /\ UNCHANGED <<cmN, cmOutcome, callState, arrivals, cmFailed, cmLastErr,
                   cmCtxDone, cmBody, cmBuffer, streamPos, seen, drains,
                   hvars, xvars>>

NextCM ==
    \/ \E n \in 1..MaxCalls, len \in 0..MaxBodyLen :
         \E out \in [1..n -> {"ok", "fail"}] : Invoke(n, out, len)
    \/ \E i \in 1..MaxCalls : CallRead(i)
    \/ \E i \in 1..MaxCalls : CallComplete(i)
    \/ ContextDoneCM
    \/ ReturnCancelled

SpecCM == InitCM /\ [][NextCM]_vars

\* the middleware's own step is taken when it is possible: its goroutine
\* is scheduled; nothing makes a launched call complete
FairSpecCM == SpecCM /\ WF_vars(ReturnCancelled)

----------------------------------------------------------------------------
(* Properties of the endpoint handler *)

Answered == pc = "done"
Completeness == w.header[CompleteResponseHeaderName]
CacheControl == w.header["Cache-Control"]
\* the pipeline returned a Response with non-empty Data
ReturnedData == proxyCalls = 1 /\ ~response.isNil /\ DataLen(response.Data) > 0

\* C1: a request whose verb differs from the handler's method (the
\* configured Method in upper case) is answered 405 with the completeness
\* header "incomplete", and the pipeline is not invoked for it.
C1_BadMethod ==
    (pc # "idle" /\ req.Method # ToTitle(cfg.Method))
        => /\ Answered
           /\ w.status = 405
           /\ Completeness = <<HeaderIncompleteResponseValue>>
           /\ proxyCalls = 0

C1_Witness ==
    /\ Answered
    /\ req.Method = MethodPut
    /\ cfg.Method = <<"g", "e", "t">>
    /\ w.status = 405

\* C2: the answer carries Cache-Control "public, max-age=<whole seconds of
\* CacheTTL>" exactly when the pipeline returned non-empty Data with
\* IsComplete and CacheTTL > 0, and carries no Cache-Control otherwise.
C2_CacheControlIffPositiveTTL ==
    Answered =>
        IF ReturnedData /\ response.IsComplete /\ cfg.CacheTTL > 0
        THEN CacheControl = <<<<"public, max-age=", WholeSeconds(cfg.CacheTTL)>>>>
        ELSE CacheControl = <<>>

C8_SynthesizedInternalError ==
    (Answered /\ proxyCalls = 1 /\ ctxDone) =>
        /\ (proxyErr.isNil /\ ~ReturnedData /\ cfg.errF = "default")
              => /\ w.status = 500
                 /\ w.body = TextBody("internal server error")
                 /\ w.header["Content-Type"] = <<<<"text/plain; charset=utf-8">>>>
                 /\ Completeness = <<HeaderIncompleteResponseValue>>
        /\ proxyErr.isNil => err = ErrInternalError
        /\ ~proxyErr.isNil => err = proxyErr

C8_Witness ==
    /\ Answered
    /\ ctxDone
    /\ proxyCalls = 1
    /\ proxyErr.isNil
    /\ ~response.isNil
    /\ ~ReturnedData
    /\ cfg.errF = "default"
    /\ w.status = 500


C10_ErrorAnswer ==
    (Answered /\ proxyCalls = 1 /\ ~ReturnedData /\ ~err.isNil) =>
        /\ w.status = IF err.hasStatus THEN err.status ELSE ErrF(cfg.errF, err)
        /\ w.body = TextBody(err.msg)
        /\ w.header["Content-Type"] = <<<<"text/plain; charset=utf-8">>>>
        /\ renderCalls = 0

C10_Witness ==
    /\ Answered
    /\ ~ctxDone
    /\ response.isNil
    /\ err = DummyResponseError
    /\ cfg.errF = "custom"
    /\ w.status = 418


----------------------------------------------------------------------------
(* Properties of the concurrent middleware *)

Returned == cmPhase = "returned"
Failing == {i \in 1..cmN : cmOutcome[i] = "fail"}
\* the first call, in the order of completion, that gave a response
FirstOk ==
    arrivals[CHOOSE j \in 1..Len(arrivals) :
                /\ cmOutcome[arrivals[j]] = "ok"
                /\ \A l \in 1..(j - 1) : cmOutcome[arrivals[l]] = "fail"]
IsPrefix(a, b) == Len(a) <= Len(b) /\ \A j \in 1..Len(a) : a[j] = b[j]

\* C4: with N > 1 calls of which k fail, and a context that does not become
\* done, the middleware returns a response iff k < N, and that response is
\* the one of the call that was first to complete without error.
C4_FirstSuccessWins ==
    (Returned /\ cmN > 1 /\ ~cmCtxDone) =>
        /\ cmResult.kind = "response" <=> Cardinality(Failing) < cmN
        /\ cmResult.kind # "response" => cmResult.kind = "error"
        /\ cmResult.kind = "response" => cmResult.from = FirstOk

C4_Witness ==
    /\ Returned
    /\ cmN = 3
    /\ ~cmCtxDone
    /\ cmOutcome = <<"ok", "fail", "ok">>
    /\ arrivals = <<2, 3>>
    /\ cmResult = [kind |-> "response", from |-> 3]

\* C5: with N > 1 calls that all fail, and a context that does not become
\* done, the error returned is the one of the call that completed last.
C5_LastErrorReturned ==
    (Returned /\ cmN > 1 /\ ~cmCtxDone /\ Failing = 1..cmN) =>
        /\ Len(arrivals) = cmN
        /\ cmResult = [kind |-> "error", from |-> arrivals[cmN]]

C5_Witness ==
    /\ Returned
    /\ cmN = 3
    /\ ~cmCtxDone
    /\ arrivals = <<2, 1, 3>>
    /\ cmResult = [kind |-> "error", from |-> 3]

\* C6: with N > 1, once the shared context is done while the middleware is
\* still waiting (no call has succeeded), the middleware returns the
\* cancellation error, and its next step is that return, whether or not
\* the calls in flight complete.
C6_CancelReturnsPromptly ==
    /\ (cmPhase = "running" /\ cmN > 1 /\ cmCtxDone)
          ~> (Returned /\ cmResult.kind = "cancelled")
    /\ [][(cmPhase = "running" /\ cmN > 1 /\ cmCtxDone /\ cmPhase' # cmPhase)
             => cmResult'.kind = "cancelled"]_vars

C6_Witness ==
    /\ Returned
    /\ cmN = 3
    /\ cmResult.kind = "cancelled"
    /\ cmOutcome = <<"ok", "ok", "fail">>
    /\ arrivals = <<3>>
    /\ callState[1] = "running"
    /\ callState[2] = "running"

\* C7: with N > 1 and a non-empty body, the original stream is drained
\* once, by the middleware, and what every call reads from its own
\* Request is the original body: always a prefix of it, all of it when
\* the call has read to the end of its stream.
C7_BodyReplayedToEveryCall ==
    (cmPhase \in {"running", "returned"} /\ cmN > 1 /\ Len(cmBody) > 0) =>
        /\ drains = 1
        /\ streamPos[0] = Len(cmBody)
        /\ \A i \in 1..cmN :
              /\ IsPrefix(seen[i], cmBody)
              /\ AtEOF(i) => seen[i] = cmBody

C7_Witness ==
    /\ cmN = 3
    /\ Len(cmBody) = 2
    /\ \A i \in 1..cmN : AtEOF(i) /\ seen[i] = cmBody

----------------------------------------------------------------------------
(* Further properties of the endpoint handler *)

C12_DefaultRender ==
    (Answered /\ proxyCalls = 1 /\ ~ReturnedData /\ proxyErr.isNil /\ ~ctxDone)
        => /\ Completeness = <<HeaderIncompleteResponseValue>>
           /\ renderCalls = 1
           /\ w.status = 200
           /\ w.body = JSONBody(MapData({}))

\* C17: every answer carries the identity header, and setting it is the
\* first statement of the handler: before the method check, the call of
\* the pipeline and every other write.
C17_IdentityHeaderFirst ==
    pc # "idle" =>
        /\ w.header[KrakendHeaderName] = <<KrakendHeaderValue>>
        /\ events[1] = "SetKrakendHeader"
        /\ \A j \in 2..Len(events) : events[j] # "SetKrakendHeader"

C17_Witness ==
    /\ Answered
    /\ w.status = 405
    /\ events = <<"SetKrakendHeader", "MethodCheck", "SetCompleteness",
                  "WriteError">>

\* C18: once the context is done while the handler is inside the pipeline
\* call, the handler goes on to write its answer, also when the pipeline
\* call does not return.
C18_NoWaitAfterDeadline == (pc = "calling" /\ ctxDone) ~> Answered

\* C19: a request is answered 405 exactly when its method differs from
\* the configured Method with letter case ignored; a method equal up to
\* letter case reaches the pipeline.
C19_CaseInsensitiveBothSides ==
    pc # "idle" =>
        ((w.status = 405 /\ proxyCalls = 0)
            <=> ToTitle(req.Method) # ToTitle(cfg.Method))

----------------------------------------------------------------------------
(* The request builder applied to one inbound request *)

HOff ==
    /\ cfg = [Method |-> MethodGet, CacheTTL |-> 0, errF |-> "default"]
    /\ req = [Method |-> MethodGet]
    /\ pc = "off"
    /\ ctxDone = FALSE
    /\ parentDone = FALSE
    /\ timerElapsed = FALSE
    /\ response = NilResponse
    /\ err = NoError
    /\ proxyErr = NoError
    /\ w = NewRecorder
    /\ proxyCalls = 0
    /\ renderCalls = 0
    /\ events = <<>>

InitRB ==
    /\ HOff
    /\ CMOff
    /\ rbPhase = "ready"
    /\ rbSel \in [queryString : QuerySelections,
                  headersToSend : HeaderSelections]
    /\ rbIn0 \in [Method : {MethodGet}, header : InboundHeaders,
                  query : InboundQueries, remoteAddr : RemoteAddrs]
    /\ rbIn = rbIn0
    /\ rbOut = NoRequest
    /\ RegOff
    /\ RROff
    /\ LockOff
    /\ NROff

\* rb(r, queryString, headersToSend)
BuildRequest ==
    /\ rbPhase = "ready"
    /\ LET hl == HeaderLoop(rbIn.header, rbSel.headersToSend, 1,
                            NoValues(HeaderKeys))
           hs == GatewayHeaders(hl.h, rbIn.remoteAddr)
       IN  /\ rbOut' = [Method  |-> rbIn.Method,
                        Query   |-> QueryLoop(rbIn.query, rbSel.queryString, 1,
                                              NoValues(QueryNames)),
                        Headers |-> hs]
           /\ rbIn' = IF hl.alias THEN [rbIn EXCEPT !.header = hs] ELSE rbIn
    /\ rbPhase' = "built"
    /\ UNCHANGED <<rbSel, rbIn0, hvars, cmvars, regvars, rrvars, lkvars, nrvars>>

NextRB == BuildRequest

SpecRB == InitRB /\ [][NextRB]_vars

Range(f) == {f[x] : x \in DOMAIN f}

\* C13: the outbound Query holds, for every listed name that has values in
\* the inbound query, all of its values in their order, and nothing for
\* any other name; with "*" in QueryString it is the whole inbound query.
C13_QuerySelection ==
    rbPhase = "built" =>
        IF "*" \in Range(rbSel.queryString)
        THEN rbOut.Query = rbIn0.query
        ELSE \A name \in QueryNames :
                rbOut.Query[name] =
                    IF name \in Range(rbSel.queryString)
                    THEN rbIn0.query[name] ELSE <<>>

C13_Witness ==
    /\ rbPhase = "built"
    /\ rbSel.queryString = <<"c[]", "d">>
    /\ rbIn0.query["a"] = <<"42">>
    /\ rbOut.Query["a"] = <<>>
    /\ rbOut.Query["b"] = <<>>
    /\ rbOut.Query["c[]"] = <<"x", "y">>
    /\ rbOut.Query["d"] = <<"1", "2">>

----------------------------------------------------------------------------
(* Registration of the endpoints with the routing engine *)

MaxEndpoints == 2
MaxBackends == 2

EndpointMethods ==
    {MethodGet, <<"g", "e", "t">>, <<"G", "E", "T", "T", "T">>,
     MethodPost, MethodPut, MethodDelete}

\* an endpoint of the configuration: its method, len(c.Backend), and
\* whether ProxyFactory.New(c) returns an error for it
EndpointConfigs ==
    [Method : EndpointMethods, totBackends : 0..MaxBackends,
     factoryErr : BOOLEAN]

\* the switch of registerKrakendEndpoint
SupportedMethods ==
    {MethodGet, MethodPost, MethodPut, MethodPatch, MethodDelete}

\* registerKrakendEndpoint: "" when the endpoint is handed to the engine,
\* else the error it logs
RegisterError(method, totBackends) ==
    IF ToTitle(method) # MethodGet /\ totBackends > 1
    THEN "endpoints must have a single backend! Ignoring"
    ELSE IF ToTitle(method) \notin SupportedMethods
    THEN "Unsupported method"
    ELSE ""

\* the loop gives up at an endpoint it skips
NextEndpoint_Break(i, n) == n + 1

\* continue, and the return of registerKrakendEndpoint: on to the next
\* endpoint whatever happened to this one
NextEndpoint(i, n) == i + 1

InitReg ==
    /\ HOff
    /\ CMOff
    /\ RBOff
    /\ regEndpoints \in
          UNION {[1..n -> EndpointConfigs] : n \in 1..MaxEndpoints}
    /\ regIdx = 1
    /\ regEngine = {}
    /\ regLog = <<>>
    /\ regAnswer = NoAnswer
    /\ RROff
    /\ LockOff
    /\ NROff

\* one turn of the loop of registerKrakendEndpoints; the endpoint at
\* position i has the path i
RegisterEndpoint ==
    /\ regIdx \in 1..Len(regEndpoints)
    /\ LET c == regEndpoints[regIdx]
           e == RegisterError(c.Method, c.totBackends)
       IN  IF c.factoryErr
           THEN /\ regLog' = Append(regLog, "calling the ProxyFactory")
                /\ UNCHANGED regEngine
           ELSE IF e # ""
           THEN /\ regLog' = Append(regLog, e)
                /\ UNCHANGED regEngine
           ELSE /\ regEngine' = regEngine \cup
                                   {[path |-> regIdx, method |-> ToTitle(c.Method)]}
                /\ UNCHANGED regLog
    /\ regIdx' = NextEndpoint(regIdx, Len(regEndpoints))
    /\ UNCHANGED <<regEndpoints, regAnswer, hvars, cmvars, rbvars, rrvars,
                   lkvars, nrvars>>

\* the engine's answer to a request: the handler registered for exactly
\* this path and method, else "route not found"
Dispatch(engine, path, m) ==
    IF [path |-> path, method |-> m] \in engine
    THEN [path |-> path, method |-> m, status |-> StatusOK]
    ELSE [path |-> path, method |-> m, status |-> StatusNotFound]

\* the methods of the requests looked at
RouteMethods == {MethodGet, MethodPut}

\* a request arrives once the server runs, after the registration loop
ServeRoute(path, m) ==
    /\ regIdx > Len(regEndpoints)
    /\ regAnswer' = Dispatch(regEngine, path, m)
    /\ UNCHANGED <<regEndpoints, regIdx, regEngine, regLog, hvars, cmvars,
                   rbvars, rrvars, lkvars, nrvars>>

NextReg ==
    \/ RegisterEndpoint
    \/ \E path \in 1..MaxEndpoints, m \in RouteMethods : ServeRoute(path, m)

SpecReg == InitReg /\ [][NextReg]_vars

Registered(i) == \E h \in regEngine : h.path = i

\* C14: an endpoint whose proxy was built is registered with the engine
\* exactly when its upper-cased method is one of GET, POST, PUT, PATCH,
\* DELETE and it has at least one backend for GET, exactly one otherwise.
C14_RegisteredIffValid ==
    \A i \in 1..Len(regEndpoints) :
        (i < regIdx /\ ~regEndpoints[i].factoryErr) =>
            (Registered(i) <=>
                /\ ToTitle(regEndpoints[i].Method) \in SupportedMethods
                /\ IF ToTitle(regEndpoints[i].Method) = MethodGet
                   THEN regEndpoints[i].totBackends >= 1
                   ELSE regEndpoints[i].totBackends = 1)

----------------------------------------------------------------------------
(* Registrations and resolutions, one after the other *)

RegisterNames == {"json", "noop", "xml"}
RegisterRenders == {"customRender", "jsonRender"}

RenderConfigs ==
    [OutputEncoding : {"", "json", "noop", "xml"},
     Backend : UNION {[1..n -> [Encoding : {"noop", "xml"}]] :
                         n \in 0..MaxBackends}]

InitRR ==
    /\ HOff
    /\ CMOff
    /\ RBOff
    /\ RegOff
    /\ RROff
    /\ LockOff
    /\ NROff

\* RegisterRender(name, r)
RegisterRender(name, r) ==
    /\ renderRegister' = RegisterWrite(renderRegister, name, r)
    /\ UNCHANGED <<rrCfg, rrAt, rrResult, rrUsed, hvars, cmvars, rbvars,
                   regvars, lkvars, nrvars>>

\* render := getRender(configuration), when the handler factory builds
\* the handler of an endpoint
GetRender(c) ==
    /\ rrCfg' = c
    /\ rrAt' = renderRegister
    /\ rrResult' = getRender(renderRegister, c)
    /\ rrUsed' = NoRender
    /\ UNCHANGED <<renderRegister, hvars, cmvars, rbvars, regvars, lkvars, nrvars>>

\* a handler that resolves its render at every request
RenderOfRequest_Resolved(kept, reg, c) == getRender(reg, c)

\* render(w, response): the render the handler kept when it was built
RenderOfRequest(kept, reg, c) == kept

\* the handler built last serves a request
RenderRequest ==
    /\ rrResult # NoRender
    /\ rrUsed' = RenderOfRequest(rrResult, renderRegister, rrCfg)
    /\ UNCHANGED <<renderRegister, rrCfg, rrAt, rrResult, hvars, cmvars,
                   rbvars, regvars, lkvars, nrvars>>

NextRR ==
    \/ \E name \in RegisterNames, r \in RegisterRenders : RegisterRender(name, r)
    \/ \E c \in RenderConfigs : GetRender(c)
    \/ RenderRequest

SpecRR == InitRR /\ [][NextRR]_vars

Resolved == rrResult # NoRender

\* the encoding name the endpoint selects: OutputEncoding if set, else the
\* Encoding of its only backend, else none
RRHasSelected ==
    rrCfg.OutputEncoding # "" \/ Len(rrCfg.Backend) = 1
RRSelected ==
    IF rrCfg.OutputEncoding # "" THEN rrCfg.OutputEncoding
    ELSE rrCfg.Backend[1].Encoding

\* C15 as stated: the render is the one registered under the selected
\* encoding name, and the JSON render when there is no selected name or it
\* is not registered.
C15_UnknownNameIsJSON ==
    Resolved =>
        rrResult = IF RRHasSelected /\ rrAt[RRSelected] # NoRender
                   THEN rrAt[RRSelected] ELSE "jsonRender"

\* C15 amended: the render registered under OutputEncoding if that is set
\* and registered; else, if the endpoint has exactly one backend and its
\* Encoding is registered, the render registered under it; else JSON.
C15_RenderResolution ==
    Resolved =>
        rrResult =
            IF rrCfg.OutputEncoding # "" /\ rrAt[rrCfg.OutputEncoding] # NoRender
            THEN rrAt[rrCfg.OutputEncoding]
            ELSE IF /\ Len(rrCfg.Backend) = 1
                    /\ rrAt[rrCfg.Backend[1].Encoding] # NoRender
            THEN rrAt[rrCfg.Backend[1].Encoding]
            ELSE "jsonRender"

C15_Witness ==
    /\ Resolved
    /\ rrCfg.OutputEncoding = "xml"
    /\ rrAt["xml"] = NoRender
    /\ Len(rrCfg.Backend) = 1
    /\ rrCfg.Backend[1].Encoding = "noop"
    /\ rrResult = "noopRender"

----------------------------------------------------------------------------
(* RegisterRender and getWithFallback called from concurrent goroutines *)

MaxProcs == 3

Procs == 1..MaxProcs

\* the encoding name the concurrent calls are about
LockKey == "xml"

\* a reader that found a writer announced goes on whenever it likes
Woken_Always(p, readers) == TRUE

\* a reader that found a writer announced goes on once the writer's
\* Unlock has made it a holder
Woken(p, readers) == p \in readers

InitLock ==
    /\ HOff
    /\ CMOff
    /\ RBOff
    /\ RegOff
    /\ RROff
    /\ lkPc = [p \in Procs |-> "idle"]
    /\ lkArg = [p \in Procs |-> NoRender]
    /\ lkGot = [p \in Procs |-> NoRender]
    /\ mutexW = 0
    /\ mutexWriter = FALSE
    /\ mutexReaders = {}
    /\ mutexBlocked = {}
    /\ NROff

lkOther ==
    <<hvars, cmvars, rbvars, regvars, rrCfg, rrAt, rrResult, rrUsed, nrvars>>

\* a goroutine calls RegisterRender(LockKey, r)
CallRegisterRender(p, r) ==
    /\ lkPc[p] = "idle"
    /\ lkPc' = [lkPc EXCEPT ![p] = "Lock"]
    /\ lkArg' = [lkArg EXCEPT ![p] = r]
    /\ UNCHANGED <<lkGot, mutexW, mutexWriter, mutexReaders, mutexBlocked,
                   renderRegister, lkOther>>

\* mutex.Lock(), first half: take the writers' mutex and announce the
\* writer to the readers
LockAnnounce(p) ==
    /\ lkPc[p] = "Lock"
    /\ mutexW = 0
    /\ mutexW' = p
    /\ mutexWriter' = TRUE
    /\ lkPc' = [lkPc EXCEPT ![p] = "LockWait"]
    /\ UNCHANGED <<lkArg, lkGot, mutexReaders, mutexBlocked, renderRegister,
                   lkOther>>

\* mutex.Lock(), second half: wait until the readers that hold the lock
\* have left
LockGranted(p) ==
    /\ lkPc[p] = "LockWait"
    /\ mutexReaders = {}
    /\ lkPc' = [lkPc EXCEPT ![p] = "write"]
    /\ UNCHANGED <<lkArg, lkGot, mutexW, mutexWriter, mutexReaders,
                   mutexBlocked, renderRegister, lkOther>>

\* renderRegister[name] = r
WriteRegister(p) ==
    /\ lkPc[p] = "write"
    /\ renderRegister' = RegisterWrite(renderRegister, LockKey, lkArg[p])
    /\ lkPc' = [lkPc EXCEPT ![p] = "Unlock"]
    /\ UNCHANGED <<lkArg, lkGot, mutexW, mutexWriter, mutexReaders,
                   mutexBlocked, lkOther>>

\* mutex.Unlock(): the waiting readers become holders, the writers' mutex
\* is released
Unlock(p) ==
    /\ lkPc[p] = "Unlock"
    /\ mutexWriter' = FALSE
    /\ mutexReaders' = mutexBlocked
    /\ mutexBlocked' = {}
    /\ mutexW' = 0
    /\ lkPc' = [lkPc EXCEPT ![p] = "idle"]
    /\ lkArg' = [lkArg EXCEPT ![p] = NoRender]
    /\ UNCHANGED <<lkGot, renderRegister, lkOther>>

\* a goroutine calls getWithFallback(LockKey, jsonRender)
CallGetWithFallback(p) ==
    /\ lkPc[p] = "idle"
    /\ lkPc' = [lkPc EXCEPT ![p] = "RLock"]
    /\ UNCHANGED <<lkArg, lkGot, mutexW, mutexWriter, mutexReaders,
                   mutexBlocked, renderRegister, lkOther>>

\* mutex.RLock(): a holder at once when no writer is announced, else a
\* waiting reader
RLock(p) ==
    /\ lkPc[p] = "RLock"
    /\ IF mutexWriter
       THEN /\ mutexBlocked' = mutexBlocked \cup {p}
            /\ lkPc' = [lkPc EXCEPT ![p] = "RLockWait"]
            /\ UNCHANGED mutexReaders
       ELSE /\ mutexReaders' = mutexReaders \cup {p}
            /\ lkPc' = [lkPc EXCEPT ![p] = "read"]
            /\ UNCHANGED mutexBlocked
    /\ UNCHANGED <<lkArg, lkGot, mutexW, mutexWriter, renderRegister, lkOther>>

\* mutex.RLock() of a waiting reader returns
RLockGranted(p) ==
    /\ lkPc[p] = "RLockWait"
    /\ Woken(p, mutexReaders)
    /\ lkPc' = [lkPc EXCEPT ![p] = "read"]
    /\ UNCHANGED <<lkArg, lkGot, mutexW, mutexWriter, mutexReaders,
                   mutexBlocked, renderRegister, lkOther>>

\* r, ok := renderRegister[key]
ReadRegister(p) ==
    /\ lkPc[p] = "read"
    /\ lkGot' = [lkGot EXCEPT
                    ![p] = getWithFallback(renderRegister, LockKey, "jsonRender")]
    /\ lkPc' = [lkPc EXCEPT ![p] = "RUnlock"]
    /\ UNCHANGED <<lkArg, mutexW, mutexWriter, mutexReaders, mutexBlocked,
                   renderRegister, lkOther>>

\* mutex.RUnlock(), and the return of getWithFallback
RUnlock(p) ==
    /\ lkPc[p] = "RUnlock"
    /\ mutexReaders' = mutexReaders \ {p}
    /\ lkPc' = [lkPc EXCEPT ![p] = "idle"]
    /\ lkGot' = [lkGot EXCEPT ![p] = NoRender]
    /\ UNCHANGED <<lkArg, mutexW, mutexWriter, mutexBlocked,
                   renderRegister, lkOther>>

\* the steps of a goroutine inside a call
LockStep(p) ==
    \/ LockAnnounce(p)
    \/ LockGranted(p)
    \/ WriteRegister(p)
    \/ Unlock(p)
    \/ RLock(p)
    \/ RLockGranted(p)
    \/ ReadRegister(p)
    \/ RUnlock(p)

NextLock ==
    \/ \E p \in Procs, r \in RegisterRenders : CallRegisterRender(p, r)
    \/ \E p \in Procs : CallGetWithFallback(p)
    \/ \E p \in Procs : LockStep(p)

SpecLock == InitLock /\ [][NextLock]_vars

\* every goroutine inside a call is scheduled, and the writers' mutex is
\* handed to each goroutine that waits for it
FairSpecLock ==
    /\ SpecLock
    /\ \A p \in Procs : WF_vars(LockStep(p))
    /\ \A p \in Procs : SF_vars(LockAnnounce(p))

MutualExclusion ==
    \A p \in Procs : \A q \in Procs \ {p} :
        ~(lkPc[p] = "write" /\ lkPc[q] \in {"write", "read"})

\* C16: no goroutine reads the registry while another writes it, no two
\* write it at the same time, and every call of RegisterRender and of
\* getWithFallback returns.
C16_RegistryLock ==
    /\ []MutualExclusion
    /\ \A p \in Procs : (lkPc[p] # "idle") ~> (lkPc[p] = "idle")

C16_Witness ==
    \E p \in Procs, q \in Procs, o \in Procs :
        /\ lkPc[p] = "write"
        /\ lkPc[q] = "RLockWait"
        /\ lkPc[o] = "Lock"

----------------------------------------------------------------------------
(* The noop render applied to one response *)

InitNR ==
    /\ HOff
    /\ CMOff
    /\ RBOff
    /\ RegOff
    /\ RROff
    /\ LockOff
    /\ nrPhase = "ready"
    /\ nrResp \in NoopResponses \cup {NilNoopResponse}
    /\ nrW = NewGinWriter

\* noopRender(c, response)
NoopRender(order) ==
    /\ nrPhase = "ready"
    /\ nrPhase' = "rendered"
    /\ IF nrResp.isNil
       THEN nrW' = [nrW EXCEPT !.status = StatusInternalServerError]
       ELSE LET gw == NoopHeaders([nrW EXCEPT !.status = nrResp.StatusCode],
                                  nrResp.Headers, order, 1)
            IN  nrW' = IF gw.panicked THEN gw
                       ELSE [gw EXCEPT !.body = nrResp.Io]
    /\ UNCHANGED <<nrResp, hvars, cmvars, rbvars, regvars, rrvars, lkvars>>

NextNR == \E order \in KeyOrders(DOMAIN nrResp.Headers) : NoopRender(order)

SpecNR == InitNR /\ [][NextNR]_vars

\* C21: for a present Response the noop render does not fail, writes the
\* status of the metadata, every key of Metadata.Headers with all of its
\* values, and the bytes of Io as the body.
C21_NoopVerbatim ==
    (nrPhase = "rendered" /\ ~nrResp.isNil) =>
        /\ ~nrW.panicked
        /\ nrW.status = nrResp.StatusCode
        /\ \A k \in DOMAIN nrResp.Headers : nrW.header[k] = nrResp.Headers[k]
        /\ nrW.body = nrResp.Io

\* the endpoints the registration has to skip, and the others
Skipped(i) ==
    \/ regEndpoints[i].factoryErr
    \/ RegisterError(regEndpoints[i].Method, regEndpoints[i].totBackends) # ""

\* C22: once the loop is over, no skipped endpoint has a handler, every
\* other endpoint of the list has one whatever was skipped before it, and
\* a request to a skipped endpoint is answered 404.
C22_SkippedAndLaterRegistered ==
    regIdx > Len(regEndpoints) =>
        /\ \A i \in 1..Len(regEndpoints) : Registered(i) <=> ~Skipped(i)
        /\ (regAnswer.path \in 1..Len(regEndpoints) /\ Skipped(regAnswer.path))
              => regAnswer.status = StatusNotFound

C22_Witness ==
    /\ Len(regEndpoints) = 2
    /\ regIdx = 3
    /\ regEndpoints[1].factoryErr
    /\ regEndpoints[1].Method = MethodGet
    /\ ~Skipped(2)
    /\ Registered(2)
    /\ regAnswer = [path |-> 1, method |-> MethodGet, status |-> StatusNotFound]

\* C23: the render a handler uses for a request is the one getRender gave
\* when the handler was built, whatever was registered since.
C23_ResolvedOnce ==
    rrUsed # NoRender => rrUsed = getRender(rrAt, rrCfg)

C23_Witness ==
    /\ rrUsed = "jsonRender"
    /\ rrCfg.OutputEncoding = "xml"
    /\ rrAt["xml"] = NoRender
    /\ renderRegister["xml"] = "customRender"

\* C24: no step removes an entry of the registry: a name that resolves
\* keeps resolving, the four built-in names among them.
C24_Additive ==
    [][\A n \in EncodingNames :
          renderRegister[n] # NoRender => renderRegister'[n] # NoRender]_vars

C24_Witness ==
    /\ renderRegister["xml"] = "customRender"
    /\ renderRegister["noop"] = "jsonRender"
    /\ renderRegister["json"] = "customRender"
    /\ \A n \in {NEGOTIATE, "string"} : renderRegister[n] = BuiltinRegister[n]

----------------------------------------------------------------------------
(* Further properties of the concurrent middleware *)

\* C25: with one call the wrapped proxy is invoked once, on the caller's
\* own Request and body stream, and what the middleware returns is the
\* result of that call and nothing else, also when the context is done.
C25_SingleCallPassThrough ==
    (cmPhase \in {"running", "returned"} /\ cmN = 1) =>
        /\ Len(callState) = 1
        /\ drains = 0
        /\ CallStream(cmN, cmBody, 1) = 0
        /\ Returned <=> callState[1] = "done"
        /\ Returned =>
              cmResult = [kind |-> IF cmOutcome[1] = "ok" THEN "response"
                                   ELSE "error",
                          from |-> 1]

C25_Witness ==
    /\ Returned
    /\ cmN = 1
    /\ cmCtxDone
    /\ Len(cmBody) = 2
    /\ seen[1] = cmBody
    /\ cmResult = [kind |-> "response", from |-> 1]

\* C26: with N > 1, a call that completes without error while the
\* middleware waits makes it return in that very step, whatever the other
\* calls do, and nothing that completes afterwards changes what was
\* returned.
C26_ReturnsWithoutWaiting ==
    /\ [][(cmPhase = "running" /\ cmN > 1 /\ ~cmCtxDone /\
           \E i \in 1..cmN : /\ callState[i] = "running"
                             /\ callState'[i] = "done"
                             /\ cmOutcome[i] = "ok")
             => (cmPhase' = "returned" /\ cmResult'.kind = "response")]_vars
    /\ [][cmPhase = "returned" =>
             (cmPhase' = "returned" /\ cmResult' = cmResult)]_vars

C26_Witness ==
    /\ Returned
    /\ cmN = 3
    /\ cmOutcome = <<"ok", "ok", "fail">>
    /\ cmResult = [kind |-> "response", from |-> 2]
    /\ arrivals = <<2, 1>>
    /\ callState[3] = "running"

----------------------------------------------------------------------------
(* The handler's context and headers *)

\* C27: for a request whose method is accepted the pipeline is invoked
\* exactly once, and the context it is invoked with is done exactly when
\* the timeout has elapsed or the inbound request's context is cancelled.
C27_ChildContext ==
    pc \in {"calling", "returned", "done"} /\ ~MethodMismatch(cfg, req) =>
        /\ proxyCalls = 1
        /\ Cardinality({j \in 1..Len(events) : events[j] = "CallProxy"}) = 1
        /\ ctxDone <=> (parentDone \/ timerElapsed)

C27_Witness ==
    /\ Answered
    /\ proxyCalls = 1
    /\ parentDone
    /\ ~timerElapsed
    /\ ctxDone
    /\ proxyErr.isNil
    /\ w.status = 500

----------------------------------------------------------------------------
(* Further properties of the request builder *)

\* C29: the outbound User-Agent is the gateway's value and the outbound
\* X-Forwarded-For is the one derived from the remote address, whatever
\* the client sent and whatever is listed; without "*" every other
\* outbound header is a listed name with the values the inbound request
\* has for it.
C29_GatewayHeaders ==
    rbPhase = "built" =>
        /\ rbOut.Headers["User-Agent"] = <<UserAgentHeaderValue>>
        /\ rbOut.Headers["X-Forwarded-For"] = <<ForwardedFor(rbIn0.remoteAddr)>>
        /\ "*" \notin Range(rbSel.headersToSend) =>
              \A k \in HeaderKeys \ {"User-Agent", "X-Forwarded-For"} :
                  rbOut.Headers[k] # <<>> =>
                      /\ k \in Range(rbSel.headersToSend)
                      /\ rbIn0.header[CanonicalMIMEHeaderKey[k]] # <<>>
                      /\ rbOut.Headers[k] = rbIn0.header[CanonicalMIMEHeaderKey[k]]

C29_Witness ==
    /\ rbPhase = "built"
    /\ rbSel.headersToSend = <<"User-Agent", "content-type">>
    /\ rbIn0.header["User-Agent"] = <<<<"curl">>>>
    /\ rbIn0.header["X-Forwarded-For"] = <<<<"10.0.0.1">>>>
    /\ rbIn0.remoteAddr = <<"1.2.3.4", ":5678">>
    /\ rbOut.Headers["User-Agent"] = <<UserAgentHeaderValue>>
    /\ rbOut.Headers["X-Forwarded-For"] = <<<<"1.2.3.4">>>>
    /\ rbOut.Headers["content-type"] = <<<<"application/json">>>>
    /\ rbOut.Headers["Content-Type"] = <<>>

\* C30: the inbound request, its header map and its query values, is
\* after the call what it was before it.
C30_InboundUnchanged ==
    rbPhase = "built" => rbIn = rbIn0

====
